---- MODULE Spec2Model ----
(***************************************************************************)
(* Model of the Habana snapshot script (gather_info_docker.py) and of its  *)
(* output-directory helper (helper_functions.py).                          *)
(*                                                                         *)
(* One process: main() checks argc, parses the arguments, prepares the     *)
(* output directory, writes the execution-command-line record and then     *)
(* SnapshotScriptDocker.run() executes the collection steps in sequence.   *)
(* The filesystem the script touches is part of the state.                 *)
(***************************************************************************)
EXTENDS Integers, Sequences, FiniteSets, TLC

VARIABLES
    pc,          \* position of the process: "main", "parse_args", ..., a step name, "exit"
    args,        \* the parsed command line (argparse namespace)
    euid,        \* os.geteuid()
    od,          \* what is at the resolved output path: "absent" | "file" | "dir"
    odEntries,   \* entries of the output directory: name -> "file" | "dir"
    odSub,       \* content of the sub-directories of the output directory: name -> set of items
    tgz,         \* what is at <resolved output path>.tar.gz: "absent" | "file" | "dir"
    started,     \* the steps of run() started so far, in order
    error,       \* NoError, or the exception that left main(): [step, cause]
    exitCode,    \* << >> while the process runs, then << its exit status >>
    success,     \* the success message of run() has been printed
    cmdFailedIn, \* "none", or the first step one of whose shell commands exited non-zero
    cpLog,       \* the cp commands issued so far: [src, dst, deref]
    home,        \* the tree under $HOME: path (sequence of names) -> "file" | "dir"
    outdir_parent, \* os.path.basename(self.outdir_path.parent)
    sv_files,    \* what getHomeDirContentToSave last returned (NotScanned before)
    copyTrace,   \* saveAdditionalCopyDirs: what was done with each --copydirs entry, in order
    fs0,         \* the filesystem at and beside the output path when the script started
    odData,      \* content of the regular files of the output directory: name -> sequence
                 \* of the blocks written into it, oldest first
    tarContent,  \* {} or { the tree stored in the archive at <output path>.tar.gz }
    written,     \* what this invocation has written in the output directory so far:
                 \* << name >> for an entry, << sub-directory, item >> for a copied item
    run,         \* "first" | "second": which invocation on this output path this is
    prev,        \* NoPrev, or the command line and the outcome of the first invocation
    od_path,     \* NotInHome, or where the output directory lies below $HOME (a path)
    odMode       \* mode bits of the entries of the output directory: name -> "0755" | "other"

vars == <<pc, args, euid, od, odEntries, odSub, tgz, started, error, exitCode,
          success, cmdFailedIn, cpLog, home, outdir_parent, sv_files, copyTrace, fs0,
          odData, tarContent, written, run, prev, od_path, odMode>>

----------------------------------------------------------------------------
(* Bounds of the model *)

\* longest --copydirs list
MaxCopyDirs == 2
\* largest number of entries in the $HOME tree of the enumeration specification
MaxNodes == 4

----------------------------------------------------------------------------
(* Constants of the program *)

NoneVal == "None"
NoError == [step |-> "none", cause |-> "none"]
Running == << >>
NotScanned == {<<"not scanned">>}
NoPrev == [ args |-> NoneVal, success |-> FALSE, modes |-> << >> ]
NotInHome == << "not below $HOME" >>

TMPDIR == "gather_info_docker"
EXECCMDLINEFILE == "execution-command-line-gather_info_docker.py.txt"
TMPFILENAME == "tmpfile"

STANDARD_FILE_NAMES ==
    [ stdout |-> "cmd_stdout.txt",
      stderr |-> "cmd_stderr.txt",
      cmdline |-> "cmdline_invocation.txt",
      yamlconfig |-> "model_yaml_config.txt",
      envvars |-> "env_vars.txt",
      habanalogs |-> "habana_logs",
      dockerc_pypkgs |-> "docker_container_python_pkgs.txt",
      dockerc_history |-> "docker_container_history.txt",
      dockerc_diskusage |-> "docker_container_disk_usage.txt",
      dockerc_homedir |-> "docker_container_homedir_and_model_artifacts",
      dockerc_copydir |-> "docker_container_additional_dirs",
      machine_hostname |-> "machine_hostname.txt",
      machine_ipaddr |-> "machine_ipaddr.txt",
      machine_hlsmi |-> "machine_hlsmi.txt",
      machine_lspci |-> "machine_lspci.txt",
      machine_cpuinfo |-> "machine_cpuinfo.txt",
      machine_cpumode |-> "machine_cpumode.txt",
      machine_nicstatus |-> "machine_Gaudi_NIC_status.txt",
      python_info |-> "python_installation_info.txt",
      platform_config_info |-> "platform_config_info.txt",
      synapse_libs_info |-> "synapse_libs_info.txt",
      package_info |-> "package_info.txt",
      dmesg_info |-> "dmesg_info.txt" ]

\* The order in which run() calls the steps.
StepOrder ==
    << "saveCmdOutputs", "saveCmdlineAndOptions", "saveEnvVars", "saveHabanaLogs",
       "saveModelSpecificArtifacts", "saveAdditionalCopyDirs",
       "saveDockerRunParameters", "saveMachineStatus", "saveSystemConfig",
       "generateTarball", "uploadTarball" >>

StepNames == { StepOrder[i] : i \in 1..Len(StepOrder) }

----------------------------------------------------------------------------
(* The environment the script runs in: the paths outside the output         *)
(* directory that exist when the script starts.                             *)

ExistingPaths == { "/tmp/run.log", "/tmp/err.log", "/tmp/cfg.yaml", "/tmp/data" }

\* os.path.exists
path_exists(p) == p \in ExistingPaths

StdoutChoices == { NoneVal, "/tmp/run.log", "/tmp/missing.log" }
StderrChoices == { NoneVal, "/tmp/err.log", "/tmp/missing.err" }
YamlChoices == { NoneVal, "/tmp/cfg.yaml", "/tmp/missing.yaml" }
CmdNameChoices == { NoneVal, "train.py" }
CopyPaths == { "/tmp/data", "/nonexistent" }

SeqsUpTo(S, n) == UNION { [1..k -> S] : k \in 0..n }

----------------------------------------------------------------------------
(* The command line *)

\* What argparse yields when an option is not given.
DefaultArgs ==
    [ outdir |-> "./", clear |-> FALSE, lite |-> FALSE, stdout |-> NoneVal,
      stderr |-> NoneVal, yaml_config |-> NoneVal, cmd_name |-> NoneVal,
      copydirs |-> << >> ]

\* Command lines that give -s/--stdout.
ArgsWithStdout ==
    [ outdir : {"/mnt/work"}, clear : BOOLEAN, lite : BOOLEAN,
      stdout : StdoutChoices \ {NoneVal}, stderr : StderrChoices,
      yaml_config : YamlChoices, cmd_name : CmdNameChoices,
      copydirs : SeqsUpTo(CopyPaths, MaxCopyDirs) ]

\* Command lines without -s/--stdout: no argument at all, "-c" alone, "--lite" alone.
ArgsWithoutStdout ==
    { DefaultArgs, [DefaultArgs EXCEPT !.clear = TRUE], [DefaultArgs EXCEPT !.lite = TRUE] }

\* len(sys.argv) == 1: the script was invoked with no argument.
NoArguments(a) == a = DefaultArgs

\* os.path.basename(Path(args.outdir).parent) once parse_args has appended TMPDIR
\* to the canonical -o path: the basename of the -o directory.
ParentBasename(outdir) ==
    CASE outdir = "/mnt/work" -> "work"
      [] outdir = "./" -> "cwd"
      [] OTHER -> "work"

----------------------------------------------------------------------------
(* The output directory and the archive beside it *)

SubDirNames ==
    { STANDARD_FILE_NAMES.habanalogs, STANDARD_FILE_NAMES.dockerc_homedir,
      STANDARD_FILE_NAMES.dockerc_copydir }

NoEntries == << >>
EmptySubs == [ d \in SubDirNames |-> {} ]

\* What an output directory that already exists may hold when the script starts:
\* nothing; a foreign file; the leavings of an earlier run; a regular file where
\* the habana_logs sub-directory is to be made.
PriorContents ==
    { [ entries |-> NoEntries, sub |-> EmptySubs, data |-> NoEntries ],
      [ entries |-> ("stale.txt" :> "file"), sub |-> EmptySubs,
        data |-> ("stale.txt" :> << "foreign" >>) ],
      [ entries |-> ("stale.txt" :> "file" @@ STANDARD_FILE_NAMES.dockerc_homedir :> "dir"),
        sub |-> [EmptySubs EXCEPT ![STANDARD_FILE_NAMES.dockerc_homedir] = {"old_artifact"}],
        data |-> ("stale.txt" :> << "foreign" >>) ],
      [ entries |-> (STANDARD_FILE_NAMES.habanalogs :> "file"), sub |-> EmptySubs,
        data |-> (STANDARD_FILE_NAMES.habanalogs :> << "foreign" >>) ] }

\* What an archive left beside the output path by an earlier, foreign run holds.
StaleTree ==
    [ entries |-> ("stale.txt" :> "file"), sub |-> EmptySubs,
      data |-> ("stale.txt" :> << "foreign" >>) ]

\* The filesystem under and beside the output path, as one value.
FsNow == [ od |-> od, entries |-> odEntries, sub |-> odSub, tgz |-> tgz, data |-> odData ]

\* The tree of the output directory, as tar.add stores it.
TreeNow == [ entries |-> odEntries, sub |-> odSub, data |-> odData ]

\* A regular file is written anew (open 'w', a > redirection, cp -f): its content is
\* the one block.
WriteFile(data, name, block) == (name :> << block >>) @@ data

\* A regular file is opened for appending (open 'a', a >> redirection): the block
\* goes after what the file holds.
AppendFile(data, name, block) ==
    (name :> IF name \in DOMAIN data THEN Append(data[name], block) ELSE << block >>) @@ data

\* The mode bits after a step: an entry the step creates gets the bits the umask
\* leaves, an entry that was there keeps its bits (cp -f and > write in place),
\* an entry that is gone has none.
ModesAfter(modes, entries) ==
    [ n \in DOMAIN entries |-> IF n \in DOMAIN modes THEN modes[n] ELSE "other" ]

\* chmod -R 755 <outdir>
chmod_R_755(entries) == [ n \in DOMAIN entries |-> "0755" ]

\* The entries of the output directory that have the canonical names of `keys`.
NamesOf(keys) == { << STANDARD_FILE_NAMES[k] >> : k \in keys }

\* Each canonical file of `keys` is written anew with the output of its command.
WriteKeys(data, keys) ==
    LET names == { STANDARD_FILE_NAMES[k] : k \in keys }
    IN  [ n \in DOMAIN data \cup names |-> IF n \in names THEN << n >> ELSE data[n] ]

\* Each canonical file of `keys` is opened for appending and gets the output of
\* its command at its end.
AppendKeys(data, keys) ==
    LET names == { STANDARD_FILE_NAMES[k] : k \in keys }
    IN  [ n \in DOMAIN data \cup names |->
            IF n \in names
            THEN IF n \in DOMAIN data THEN Append(data[n], n) ELSE << n >>
            ELSE data[n] ]

\* An entry of the output directory is (over)written as a regular file.
PutFile(entries, name) ==
    IF name \in DOMAIN entries THEN entries ELSE (name :> "file") @@ entries

\* os.makedirs(<outdir>/<name>, exist_ok=True): FileExistsError when a regular
\* file has the name.
MakedirsFails(entries, name) == name \in DOMAIN entries /\ entries[name] = "file"

MakeSubDir(entries, name) ==
    IF name \in DOMAIN entries THEN entries ELSE (name :> "dir") @@ entries

\* Variant of clear_existing that removes a file but leaves a directory in place.
clear_existing_files_only(fs, clear_flag) ==
    IF clear_flag /\ fs.od = "file" THEN [fs EXCEPT !.od = "absent"] ELSE fs

\* helper_functions.py lines 24-30: with clear_flag, a file at the path is removed,
\* a directory is removed with everything in it.
clear_existing(fs, clear_flag) ==
    IF clear_flag
    THEN IF fs.od = "file"
         THEN [fs EXCEPT !.od = "absent"]
         ELSE IF fs.od = "dir"
              THEN [fs EXCEPT !.od = "absent", !.entries = NoEntries, !.sub = EmptySubs,
                              !.data = NoEntries]
              ELSE fs
    ELSE fs

\* os.makedirs(od_path, exist_ok=True) raises FileExistsError when the path is a file.
makedirs_raises(fs) == fs.od = "file"

\* os.makedirs(od_path, mode=0o777, exist_ok=True) when it does not raise.
makedirs(fs) ==
    IF fs.od = "absent"
    THEN [fs EXCEPT !.od = "dir", !.entries = NoEntries, !.sub = EmptySubs,
                    !.data = NoEntries]
    ELSE fs

\* Variant of remove_stale_archive that leaves the archive where it is.
remove_stale_archive_never(fs) == fs

\* helper_functions.py lines 32-34: a regular file at <path>.tar.gz is removed.
remove_stale_archive(fs) ==
    IF fs.tgz = "file" THEN [fs EXCEPT !.tgz = "absent"] ELSE fs

----------------------------------------------------------------------------
(* How a call ends *)

\* Variant of Raise in which a step's handler records the error and run() goes on.
Raise_and_go_on(step, cause) ==
    /\ pc' = IF step = "create_output_dir" THEN "exit"
             ELSE IF step = "uploadTarball" THEN "print_success"
             ELSE StepOrder[(CHOOSE i \in 1..Len(StepOrder) : StepOrder[i] = step) + 1]
    /\ error' = [step |-> step, cause |-> cause]
    /\ exitCode' = IF step = "create_output_dir" THEN << 1 >> ELSE exitCode

\* An exception leaves main(): the interpreter prints the traceback and the
\* process ends with status 1.
Raise(step, cause) ==
    /\ pc' = "exit"
    /\ error' = [step |-> step, cause |-> cause]
    /\ exitCode' = << 1 >>

\* sys.exit(status)
SysExit(status) ==
    /\ pc' = "exit"
    /\ exitCode' = << status >>
    /\ UNCHANGED error

\* The call returns and main() goes on with the next statement.
ReturnTo(next) ==
    /\ pc' = next
    /\ UNCHANGED <<error, exitCode>>

----------------------------------------------------------------------------
(* main() up to run() *)

\* main(), lines 491-494: no argument at all prints the help and exits with 1.
MainCheckArgc ==
    /\ pc = "main"
    /\ IF NoArguments(args) THEN SysExit(1) ELSE ReturnTo("parse_args")
    /\ UNCHANGED <<args, euid, od, odEntries, odSub, tgz, started, success,
                   cmdFailedIn, cpLog, home, outdir_parent, sv_files, copyTrace, fs0,
                   odData, tarContent, written, run, prev, od_path, odMode>>

\* argparse's ArgumentParser.error(): a required option that is missing ends the
\* process with status 2.
ArgparseErrorStatus == 2

\* Variant of parse_args without the privilege check.
parse_args_unprivileged ==
    /\ pc = "parse_args"
    /\ IF args.stdout = NoneVal
       THEN SysExit(ArgparseErrorStatus)
       ELSE ReturnTo("create_output_dir")
    /\ UNCHANGED <<args, euid, od, odEntries, odSub, tgz, started, success,
                   cmdFailedIn, cpLog, home, outdir_parent, sv_files, copyTrace, fs0,
                   odData, tarContent, written, run, prev, od_path, odMode>>

\* GatherInfoDockerArgParser.parse_args: argparse first (a missing -s is its
\* error), then the privilege check.
parse_args ==
    /\ pc = "parse_args"
    /\ IF args.stdout = NoneVal
       THEN SysExit(ArgparseErrorStatus)
       ELSE IF euid # 0 THEN SysExit(1) ELSE ReturnTo("create_output_dir")
    /\ UNCHANGED <<args, euid, od, odEntries, odSub, tgz, started, success,
                   cmdFailedIn, cpLog, home, outdir_parent, sv_files, copyTrace, fs0,
                   odData, tarContent, written, run, prev, od_path, odMode>>

\* create_output_dir(args.outdir, args.clear)
create_output_dir ==
    /\ pc = "create_output_dir"
    /\ LET cleared == clear_existing(FsNow, args.clear)
           result == IF makedirs_raises(cleared)
                     THEN cleared
                     ELSE remove_stale_archive(makedirs(cleared))
       IN  /\ od' = result.od
           /\ odEntries' = result.entries
           /\ odSub' = result.sub
           /\ tgz' = result.tgz
           /\ odData' = result.data
           /\ tarContent' = IF result.tgz = "file" THEN tarContent ELSE {}
           /\ IF makedirs_raises(cleared)
              THEN Raise("create_output_dir", "FileExistsError")
              ELSE ReturnTo("write_execcmdline")
    /\ odMode' = ModesAfter(odMode, odEntries')
    /\ UNCHANGED <<args, euid, started, success, cmdFailedIn, cpLog, home,
                   outdir_parent, sv_files, copyTrace, fs0,
                   written, run, prev, od_path>>

\* main(), lines 499-500: the execution-command-line record.
write_execcmdline ==
    /\ pc = "write_execcmdline"
    /\ odEntries' = PutFile(odEntries, EXECCMDLINEFILE)
    /\ odData' = WriteFile(odData, EXECCMDLINEFILE, "sys.argv")
    /\ written' = written \cup { << EXECCMDLINEFILE >> }
    /\ ReturnTo(StepOrder[1])
    /\ odMode' = ModesAfter(odMode, odEntries')
    /\ UNCHANGED <<args, euid, od, odSub, tgz, started, success, cmdFailedIn, cpLog,
                   home, outdir_parent, sv_files, copyTrace, fs0,
                   tarContent, run, prev, od_path>>

----------------------------------------------------------------------------
(* The tree under $HOME and its enumeration *)

Basename(path) == path[Len(path)]

\* os.scandir(start_path): the entries directly under start_path.
Scandir(h, start_path) ==
    { q \in DOMAIN h : /\ Len(q) = Len(start_path) + 1
                       /\ SubSeq(q, 1, Len(start_path)) = start_path }

\* Variant of isValidDirToCopy that looks only at the directories directly below
\* start_path.
isValidDirToCopy_shallow(h, start_path, outdir_basename) ==
    \A entry \in Scandir(h, start_path) :
        h[entry] = "dir" => Basename(entry) # outdir_basename

\* SnapshotScriptDocker.isValidDirToCopy: FALSE as soon as a directory below
\* start_path has the name, at any depth.
RECURSIVE isValidDirToCopy(_, _, _)
isValidDirToCopy(h, start_path, outdir_basename) ==
    \A entry \in Scandir(h, start_path) :
        h[entry] = "dir" =>
            ~ ( \/ Basename(entry) = outdir_basename
                \/ ~ isValidDirToCopy(h, entry, outdir_basename) )

\* SnapshotScriptDocker.getHomeDirContentToSave: the entries directly under $HOME
\* that are copied (the order of the list is that of os.scandir, which is
\* arbitrary: the list is modelled by its set of entries).
getHomeDirContentToSave(h, outdir_basename) ==
    { entry \in Scandir(h, << >>) :
        IF /\ h[entry] = "dir"
           /\ Basename(entry) # outdir_basename
           /\ isValidDirToCopy(h, entry, outdir_basename)
        THEN TRUE
        ELSE h[entry] = "file" }

\* The $HOME of the run specification.
MainHome ==
    ( << ".bash_history" >> :> "file" @@ << "notes.txt" >> :> "file"
      @@ << "data" >> :> "dir" @@ << "project" >> :> "dir"
      @@ << "project", "work" >> :> "dir" )

----------------------------------------------------------------------------
(* The steps of SnapshotScriptDocker.run() *)

StepIndex(step) == CHOOSE i \in 1..Len(StepOrder) : StepOrder[i] = step

\* What run() does after `step` returns: the next call, or the final print.
AfterStep(step) ==
    IF StepIndex(step) < Len(StepOrder)
    THEN StepOrder[StepIndex(step) + 1]
    ELSE "print_success"

\* run_cmd: the command runs in a shell and run_cmd waits for it; the exit status
\* is not looked at. The model notes the first step in which a status was non-zero.
run_cmd(step, failed) ==
    cmdFailedIn' = IF cmdFailedIn = "none" /\ failed THEN step ELSE cmdFailedIn

\* One cp command line: saveFile passes -L (dereference), saveFileNoSymlink does not.
CpCommand(src, key, deref) ==
    [ src |-> src, dst |-> STANDARD_FILE_NAMES[key], deref |-> deref ]

\* saveFile(info_file_name, info_file_type): cp -r -f -L --preserve=timestamps
saveFile(src, key) == CpCommand(src, key, TRUE)

\* Variant of saveFileNoSymlink that passes -L like saveFile.
saveFileNoSymlink_deref(src, key) == CpCommand(src, key, TRUE)

\* saveFileNoSymlink(info_file_name, info_file_type): cp -r -f --preserve=timestamps
saveFileNoSymlink(src, key) == CpCommand(src, key, FALSE)

\* saveCmdOutputs: stdout is required, stderr is copied when given.
saveCmdOutputs ==
    /\ pc = "saveCmdOutputs"
    /\ started' = Append(started, "saveCmdOutputs")
    /\ \E failed \in BOOLEAN :
        IF ~ path_exists(args.stdout)
        THEN /\ Raise("saveCmdOutputs", "not a valid filename")
             /\ UNCHANGED <<odEntries, odData, written, cpLog, cmdFailedIn>>
        ELSE IF args.stderr # NoneVal /\ ~ path_exists(args.stderr)
        THEN /\ odEntries' = PutFile(odEntries, STANDARD_FILE_NAMES.stdout)
             /\ odData' = WriteFile(odData, STANDARD_FILE_NAMES.stdout, args.stdout)
             /\ written' = written \cup NamesOf({"stdout"})
             /\ cpLog' = cpLog \cup { saveFile(args.stdout, "stdout") }
             /\ run_cmd("saveCmdOutputs", failed)
             /\ Raise("saveCmdOutputs", "not a valid filename")
        ELSE /\ odEntries' =
                  IF args.stderr # NoneVal
                  THEN PutFile(PutFile(odEntries, STANDARD_FILE_NAMES.stdout),
                               STANDARD_FILE_NAMES.stderr)
                  ELSE PutFile(odEntries, STANDARD_FILE_NAMES.stdout)
             /\ odData' =
                  LET d1 == WriteFile(odData, STANDARD_FILE_NAMES.stdout, args.stdout)
                  IN  IF args.stderr # NoneVal
                      THEN WriteFile(d1, STANDARD_FILE_NAMES.stderr, args.stderr)
                      ELSE d1
             /\ written' = written \cup NamesOf({"stdout"})
                             \cup IF args.stderr # NoneVal THEN NamesOf({"stderr"}) ELSE {}
             /\ cpLog' = cpLog \cup { saveFile(args.stdout, "stdout") }
                           \cup IF args.stderr # NoneVal
                                THEN { saveFile(args.stderr, "stderr") } ELSE {}
             /\ run_cmd("saveCmdOutputs", failed)
             /\ ReturnTo(AfterStep("saveCmdOutputs"))
    /\ odMode' = ModesAfter(odMode, odEntries')
    /\ UNCHANGED <<args, euid, od, odSub, tgz, success, home, outdir_parent, sv_files,
                   copyTrace, fs0,
                   tarContent, run, prev, od_path>>

\* saveCmdlineAndOptions: the history line when cmd_name is given, the yaml
\* config when given. cp of a path that does not exist exits non-zero and copies
\* nothing.
saveCmdlineAndOptions ==
    /\ pc = "saveCmdlineAndOptions"
    /\ started' = Append(started, "saveCmdlineAndOptions")
    /\ \E failed \in IF args.yaml_config # NoneVal /\ ~ path_exists(args.yaml_config)
                     THEN {TRUE}
                     ELSE IF args.cmd_name = NoneVal /\ args.yaml_config = NoneVal
                          THEN {FALSE} ELSE BOOLEAN :
        /\ odEntries' =
             LET e1 == IF args.cmd_name # NoneVal
                       THEN PutFile(odEntries, STANDARD_FILE_NAMES.cmdline)
                       ELSE odEntries
             IN  IF args.yaml_config # NoneVal /\ path_exists(args.yaml_config)
                 THEN PutFile(e1, STANDARD_FILE_NAMES.yamlconfig)
                 ELSE e1
        /\ odData' =
             LET d1 == IF args.cmd_name # NoneVal
                       THEN WriteFile(odData, STANDARD_FILE_NAMES.cmdline, args.cmd_name)
                       ELSE odData
             IN  IF args.yaml_config # NoneVal /\ path_exists(args.yaml_config)
                 THEN WriteFile(d1, STANDARD_FILE_NAMES.yamlconfig, args.yaml_config)
                 ELSE d1
        /\ written' = written
                        \cup (IF args.cmd_name # NoneVal THEN NamesOf({"cmdline"}) ELSE {})
                        \cup (IF args.yaml_config # NoneVal /\ path_exists(args.yaml_config)
                              THEN NamesOf({"yamlconfig"}) ELSE {})
        /\ cpLog' = cpLog \cup IF args.yaml_config # NoneVal
                               THEN { saveFile(args.yaml_config, "yamlconfig") } ELSE {}
        /\ run_cmd("saveCmdlineAndOptions", failed)
        /\ ReturnTo(AfterStep("saveCmdlineAndOptions"))
    /\ odMode' = ModesAfter(odMode, odEntries')
    /\ UNCHANGED <<args, euid, od, odSub, tgz, success, home, outdir_parent, sv_files,
                   copyTrace, fs0,
                   tarContent, run, prev, od_path>>

\* Variant of RemoveTmpFile that removes every file that is not the script's.
RemoveTmpFile_and_foreign(entries) ==
    [ n \in DOMAIN entries \ {TMPFILENAME, "stale.txt"} |-> entries[n] ]

\* os.remove(<outdir>/tmpfile) when it exists.
RemoveTmpFile(entries) ==
    [ n \in DOMAIN entries \ {TMPFILENAME} |-> entries[n] ]

\* saveEnvVars: env > env_vars.txt
saveEnvVars ==
    /\ pc = "saveEnvVars"
    /\ started' = Append(started, "saveEnvVars")
    /\ \E failed \in BOOLEAN :
        /\ odEntries' = PutFile(RemoveTmpFile(odEntries), STANDARD_FILE_NAMES.envvars)
        /\ odData' = WriteFile(RemoveTmpFile(odData), STANDARD_FILE_NAMES.envvars, "env")
        /\ written' = written \cup NamesOf({"envvars"})
        /\ run_cmd("saveEnvVars", failed)
        /\ ReturnTo(AfterStep("saveEnvVars"))
    /\ odMode' = ModesAfter(odMode, odEntries')
    /\ UNCHANGED <<args, euid, od, odSub, tgz, success, cpLog, home, outdir_parent,
                   sv_files, copyTrace, fs0,
                   tarContent, run, prev, od_path>>

\* saveHabanaLogs: the habana_logs sub-directory, then cp $HABANA_LOGS/* into it.
saveHabanaLogs ==
    /\ pc = "saveHabanaLogs"
    /\ started' = Append(started, "saveHabanaLogs")
    /\ \E failed \in BOOLEAN :
        IF MakedirsFails(odEntries, STANDARD_FILE_NAMES.habanalogs)
        THEN /\ Raise("saveHabanaLogs", "FileExistsError")
             /\ UNCHANGED <<odEntries, odSub, written, cpLog, cmdFailedIn>>
        ELSE /\ odEntries' = MakeSubDir(odEntries, STANDARD_FILE_NAMES.habanalogs)
             /\ written' = written \cup NamesOf({"habanalogs"})
                             \cup { << STANDARD_FILE_NAMES.habanalogs, "$HABANA_LOGS/*" >> }
             /\ odSub' = [odSub EXCEPT ![STANDARD_FILE_NAMES.habanalogs] =
                                            @ \cup {"$HABANA_LOGS/*"}]
             /\ cpLog' = cpLog \cup { saveFile("$HABANA_LOGS/*", "habanalogs") }
             /\ run_cmd("saveHabanaLogs", failed)
             /\ ReturnTo(AfterStep("saveHabanaLogs"))
    /\ odMode' = ModesAfter(odMode, odEntries')
    /\ UNCHANGED <<args, euid, od, tgz, success, home, outdir_parent, sv_files,
                   copyTrace, fs0,
                   odData, tarContent, run, prev, od_path>>

PutFiles(entries, keys) ==
    LET names == { STANDARD_FILE_NAMES[k] : k \in keys }
    IN  [ n \in DOMAIN entries \cup names |->
            IF n \in DOMAIN entries THEN entries[n] ELSE "file" ]

\* Variant of HomedirEntries that makes the sub-directory before looking at --lite.
HomedirEntries_always(entries, lite) ==
    MakeSubDir(entries, STANDARD_FILE_NAMES.dockerc_homedir)

\* saveModelSpecificArtifacts, lines 264-269: with --lite the step returns before
\* the sub-directory is made.
HomedirEntries(entries, lite) ==
    IF lite THEN entries ELSE MakeSubDir(entries, STANDARD_FILE_NAMES.dockerc_homedir)

\* saveModelSpecificArtifacts: everything getHomeDirContentToSave lists is copied
\* into the home-directory sub-directory, unless --lite.
saveModelSpecificArtifacts ==
    /\ pc = "saveModelSpecificArtifacts"
    /\ started' = Append(started, "saveModelSpecificArtifacts")
    /\ \E failed \in IF args.lite THEN {FALSE} ELSE BOOLEAN :
        IF ~ args.lite /\ MakedirsFails(odEntries, STANDARD_FILE_NAMES.dockerc_homedir)
        THEN /\ Raise("saveModelSpecificArtifacts", "FileExistsError")
             /\ UNCHANGED <<odEntries, odSub, written, cpLog, cmdFailedIn, sv_files>>
        ELSE LET files_dirs_to_save ==
                     IF args.lite THEN {} ELSE getHomeDirContentToSave(home, outdir_parent)
             IN  /\ odEntries' = HomedirEntries(odEntries, args.lite)
                 /\ sv_files' = IF args.lite THEN sv_files ELSE files_dirs_to_save
                 /\ odSub' = [odSub EXCEPT ![STANDARD_FILE_NAMES.dockerc_homedir] =
                                 @ \cup { Basename(f) : f \in files_dirs_to_save }]
                 /\ written' = written
                                 \cup (IF args.lite THEN {} ELSE NamesOf({"dockerc_homedir"}))
                                 \cup { << STANDARD_FILE_NAMES.dockerc_homedir, Basename(f) >> :
                                          f \in files_dirs_to_save }
                 /\ cpLog' = cpLog \cup { saveFile(Basename(f), "dockerc_homedir") :
                                            f \in files_dirs_to_save }
                 /\ run_cmd("saveModelSpecificArtifacts",
                            failed /\ files_dirs_to_save # {})
                 /\ ReturnTo(AfterStep("saveModelSpecificArtifacts"))
    /\ odMode' = ModesAfter(odMode, odEntries')
    /\ UNCHANGED <<args, euid, od, tgz, success, home, outdir_parent, copyTrace, fs0,
                   odData, tarContent, run, prev, od_path>>

\* saveAdditionalCopyDirs, lines 284-288: every entry of the list is looked at, in
\* order; one that exists is copied, one that does not is skipped.
CopyDirDecisions(copydirs) ==
    [ i \in 1..Len(copydirs) |->
        [ path |-> copydirs[i],
          did |-> IF path_exists(copydirs[i]) THEN "copied" ELSE "skipped" ] ]

Copied(trace) == { trace[i].path : i \in { j \in 1..Len(trace) : trace[j].did = "copied" } }

\* saveAdditionalCopyDirs
saveAdditionalCopyDirs ==
    /\ pc = "saveAdditionalCopyDirs"
    /\ started' = Append(started, "saveAdditionalCopyDirs")
    /\ LET trace == CopyDirDecisions(args.copydirs)
       IN  \E failed \in IF Copied(trace) = {} THEN {FALSE} ELSE BOOLEAN :
            IF args.copydirs # << >>
               /\ MakedirsFails(odEntries, STANDARD_FILE_NAMES.dockerc_copydir)
            THEN /\ Raise("saveAdditionalCopyDirs", "FileExistsError")
                 /\ UNCHANGED <<odEntries, odSub, written, cpLog, cmdFailedIn, copyTrace>>
            ELSE /\ odEntries' = IF args.copydirs # << >>
                                 THEN MakeSubDir(odEntries, STANDARD_FILE_NAMES.dockerc_copydir)
                                 ELSE odEntries
                 /\ copyTrace' = trace
                 /\ odSub' = [odSub EXCEPT ![STANDARD_FILE_NAMES.dockerc_copydir] =
                                 @ \cup Copied(trace)]
                 /\ written' = written
                                 \cup (IF args.copydirs # << >>
                                       THEN NamesOf({"dockerc_copydir"}) ELSE {})
                                 \cup { << STANDARD_FILE_NAMES.dockerc_copydir, src >> :
                                          src \in Copied(trace) }
                 /\ cpLog' = cpLog \cup { saveFileNoSymlink(src, "dockerc_copydir") :
                                            src \in Copied(trace) }
                 /\ run_cmd("saveAdditionalCopyDirs", failed)
                 /\ ReturnTo(AfterStep("saveAdditionalCopyDirs"))
    /\ odMode' = ModesAfter(odMode, odEntries')
    /\ UNCHANGED <<args, euid, od, tgz, success, home, outdir_parent, sv_files, fs0,
                   odData, tarContent, run, prev, od_path>>

\* saveDockerRunParameters: history -a; cp $HOME/.bash_history; pip3 list; du
saveDockerRunParameters ==
    /\ pc = "saveDockerRunParameters"
    /\ started' = Append(started, "saveDockerRunParameters")
    /\ \E failed \in IF << ".bash_history" >> \in DOMAIN home THEN BOOLEAN ELSE {TRUE} :
        /\ LET keys == {"dockerc_pypkgs", "dockerc_diskusage"}
                        \cup IF << ".bash_history" >> \in DOMAIN home
                             THEN {"dockerc_history"} ELSE {}
           IN  /\ odEntries' = PutFiles(odEntries, keys)
               /\ odData' = WriteKeys(odData, keys)
               /\ written' = written \cup NamesOf(keys)
        /\ cpLog' = cpLog \cup { saveFile("$HOME/.bash_history", "dockerc_history") }
        /\ run_cmd("saveDockerRunParameters", failed)
        /\ ReturnTo(AfterStep("saveDockerRunParameters"))
    /\ odMode' = ModesAfter(odMode, odEntries')
    /\ UNCHANGED <<args, euid, od, odSub, tgz, success, home, outdir_parent, sv_files,
                   copyTrace, fs0,
                   tarContent, run, prev, od_path>>

\* saveMachineStatus: six commands, each redirected into its canonical file.
saveMachineStatus ==
    /\ pc = "saveMachineStatus"
    /\ started' = Append(started, "saveMachineStatus")
    /\ \E failed \in BOOLEAN :
        /\ LET keys == {"machine_hostname", "machine_ipaddr", "machine_hlsmi",
                        "machine_lspci", "machine_cpuinfo", "machine_cpumode"}
           IN  /\ odEntries' = PutFiles(odEntries, keys)
               /\ odData' = WriteKeys(odData, keys)
               /\ written' = written \cup NamesOf(keys)
        /\ run_cmd("saveMachineStatus", failed)
        /\ ReturnTo(AfterStep("saveMachineStatus"))
    /\ odMode' = ModesAfter(odMode, odEntries')
    /\ UNCHANGED <<args, euid, od, odSub, tgz, success, cpLog, home, outdir_parent,
                   sv_files, copyTrace, fs0,
                   tarContent, run, prev, od_path>>

\* The files saveSystemConfig writes: each of its five parts opens its file with
\* mode 'a' or redirects into it with >>.
SystemConfigKeys ==
    { "python_info", "platform_config_info", "synapse_libs_info", "package_info",
      "dmesg_info" }

\* saveSystemConfig: python, platform, Synapse libraries, packages, dmesg.
saveSystemConfig ==
    /\ pc = "saveSystemConfig"
    /\ started' = Append(started, "saveSystemConfig")
    /\ \E failed \in BOOLEAN :
        /\ odEntries' = PutFiles(odEntries, SystemConfigKeys)
        /\ odData' = AppendKeys(odData, SystemConfigKeys)
        /\ written' = written \cup NamesOf(SystemConfigKeys)
        /\ run_cmd("saveSystemConfig", failed)
        /\ ReturnTo(AfterStep("saveSystemConfig"))
    /\ odMode' = ModesAfter(odMode, odEntries')
    /\ UNCHANGED <<args, euid, od, odSub, tgz, success, cpLog, home, outdir_parent,
                   sv_files, copyTrace, fs0,
                   tarContent, run, prev, od_path>>

\* tarfile.open(tarfile_name, 'x:gz'): exclusive creation, FileExistsError when
\* anything has the name.
TarOpenRaises(archive) == archive # "absent"

\* generateTarball: chmod, then <basename>.tar.gz is created in the parent directory.
generateTarball ==
    /\ pc = "generateTarball"
    /\ started' = Append(started, "generateTarball")
    /\ \E failed \in BOOLEAN :
        /\ run_cmd("generateTarball", failed)
        /\ IF TarOpenRaises(tgz)
           THEN /\ Raise("generateTarball", "FileExistsError")
                /\ UNCHANGED <<tgz, tarContent>>
           ELSE /\ tgz' = "file"
                /\ tarContent' = { TreeNow }
                /\ ReturnTo(AfterStep("generateTarball"))
    /\ odMode' = chmod_R_755(odEntries)
    /\ UNCHANGED <<args, euid, od, odEntries, odSub, success, cpLog, home,
                   outdir_parent, sv_files, copyTrace, fs0,
                   odData, written, run, prev, od_path>>

\* uploadTarball: pass
uploadTarball ==
    /\ pc = "uploadTarball"
    /\ started' = Append(started, "uploadTarball")
    /\ ReturnTo(AfterStep("uploadTarball"))
    /\ UNCHANGED <<args, euid, od, odEntries, odSub, tgz, success, cmdFailedIn, cpLog,
                   home, outdir_parent, sv_files, copyTrace, fs0,
                   odData, tarContent, written, run, prev, od_path, odMode>>

\* run(), line 460, and the return from main(): the process ends with status 0.
print_success ==
    /\ pc = "print_success"
    /\ success' = TRUE
    /\ SysExit(0)
    /\ UNCHANGED <<args, euid, od, odEntries, odSub, tgz, started, cmdFailedIn, cpLog,
                   home, outdir_parent, sv_files, copyTrace, fs0,
                   odData, tarContent, written, run, prev, od_path, odMode>>

----------------------------------------------------------------------------
(* The run specification: one invocation of the script *)

Init ==
    /\ pc = "main"
    /\ args \in ArgsWithStdout \cup ArgsWithoutStdout
    /\ euid \in {0, 1000}
    /\ od \in {"absent", "file", "dir"}
    /\ \E prior \in IF od = "dir" THEN PriorContents
                    ELSE { [ entries |-> NoEntries, sub |-> EmptySubs,
                             data |-> NoEntries ] } :
          /\ odEntries = prior.entries
          /\ odSub = prior.sub
          /\ odData = prior.data
    /\ tgz \in {"absent", "file", "dir"}
    /\ started = << >>
    /\ error = NoError
    /\ exitCode = Running
    /\ success = FALSE
    /\ cmdFailedIn = "none"
    /\ cpLog = {}
    /\ home = MainHome
    /\ outdir_parent = ParentBasename(args.outdir)
    /\ sv_files = NotScanned
    /\ copyTrace = << >>
    /\ fs0 = FsNow
    /\ tarContent = IF tgz = "file" THEN { StaleTree } ELSE {}
    /\ written = {}
    /\ run = "first"
    /\ prev = NoPrev
    /\ od_path = NotInHome
    /\ odMode = [ n \in DOMAIN odEntries |-> "other" ]

Next ==
    \/ MainCheckArgc
    \/ parse_args
    \/ create_output_dir
    \/ write_execcmdline
    \/ saveCmdOutputs
    \/ saveCmdlineAndOptions
    \/ saveEnvVars
    \/ saveHabanaLogs
    \/ saveModelSpecificArtifacts
    \/ saveAdditionalCopyDirs
    \/ saveDockerRunParameters
    \/ saveMachineStatus
    \/ saveSystemConfig
    \/ generateTarball
    \/ uploadTarball
    \/ print_success

Spec == Init /\ [][Next]_vars

----------------------------------------------------------------------------
(* The enumeration specification: getHomeDirContentToSave on every $HOME     *)
(* tree of at most MaxNodes entries. The tree is grown one entry at a time   *)
(* (a mkdir or a file creation under an existing directory), then scanned.   *)

HomeNames == { "work", "data", "x" }

HomeDirs(h) == { << >> } \cup { q \in DOMAIN h : h[q] = "dir" }

\* One more entry appears under $HOME before the script looks at it.
HomeAddEntry ==
    /\ pc = "home"
    /\ sv_files = NotScanned
    /\ Cardinality(DOMAIN home) < MaxNodes
    /\ \E parent \in HomeDirs(home), name \in HomeNames, kind \in {"file", "dir"} :
          /\ Append(parent, name) \notin DOMAIN home
          /\ home' = (Append(parent, name) :> kind) @@ home
    /\ UNCHANGED <<pc, args, euid, od, odEntries, odSub, tgz, started, error, exitCode,
                   success, cmdFailedIn, cpLog, outdir_parent, sv_files, copyTrace, fs0,
                   odData, tarContent, written, run, prev, od_path, odMode>>

\* os.path.basename of $HOME itself.
HomeBasename == "root"

\* The script is started with a -o directory that is $HOME or a directory below
\* it: parse_args appends TMPDIR to the canonical -o path, create_output_dir makes
\* the directory, and outdir_basename is the basename of the -o directory.
HomePlaceOutdir ==
    /\ pc = "home"
    /\ sv_files = NotScanned
    /\ od_path = NotInHome
    /\ \E o_dir \in HomeDirs(home) :
          /\ od_path' = Append(o_dir, TMPDIR)
          /\ home' = (Append(o_dir, TMPDIR) :> "dir") @@ home
          /\ outdir_parent' = IF o_dir = << >> THEN HomeBasename ELSE Basename(o_dir)
    /\ UNCHANGED <<pc, args, euid, od, odEntries, odSub, tgz, started, error, exitCode,
                   success, cmdFailedIn, cpLog, sv_files, copyTrace, fs0,
                   odData, tarContent, written, run, prev, odMode>>

\* files_dirs_to_save = self.getHomeDirContentToSave()
HomeScan ==
    /\ pc = "home"
    /\ sv_files = NotScanned
    /\ sv_files' = getHomeDirContentToSave(home, outdir_parent)
    /\ UNCHANGED <<pc, args, euid, od, odEntries, odSub, tgz, started, error, exitCode,
                   success, cmdFailedIn, cpLog, home, outdir_parent, copyTrace, fs0,
                   odData, tarContent, written, run, prev, od_path, odMode>>

InitHome ==
    /\ pc = "home"
    /\ args = [DefaultArgs EXCEPT !.outdir = "/mnt/work", !.stdout = "/tmp/run.log"]
    /\ euid = 0
    /\ od = "dir"
    /\ odEntries = NoEntries
    /\ odSub = EmptySubs
    /\ odData = NoEntries
    /\ tgz = "absent"
    /\ started = << >>
    /\ error = NoError
    /\ exitCode = Running
    /\ success = FALSE
    /\ cmdFailedIn = "none"
    /\ cpLog = {}
    /\ home = << >>
    /\ outdir_parent = ParentBasename(args.outdir)
    /\ sv_files = NotScanned
    /\ copyTrace = << >>
    /\ fs0 = FsNow
    /\ tarContent = {}
    /\ written = {}
    /\ run = "first"
    /\ prev = NoPrev
    /\ od_path = NotInHome
    /\ odMode = << >>

NextHome == HomeAddEntry \/ HomePlaceOutdir \/ HomeScan

SpecHome == InitHome /\ [][NextHome]_vars

----------------------------------------------------------------------------
(* The re-run specification: the script is run as root on an output path,   *)
(* ends (with any outcome), and is run once more on the same output path.   *)

\* The command lines of the two invocations: the same -o, each flag either way,
\* a -s file that exists or not, one --copydirs entry or none.
RerunArgs ==
    [ outdir : {"/mnt/work"}, clear : BOOLEAN, lite : BOOLEAN,
      stdout : {"/tmp/run.log", "/tmp/missing.log"}, stderr : {NoneVal},
      yaml_config : {NoneVal}, cmd_name : {NoneVal},
      copydirs : { << >>, << "/tmp/data" >> } ]

\* What the output directory may hold before the first invocation: nothing, or
\* two files that are not the script's.
RerunPriors ==
    { [ entries |-> NoEntries, sub |-> EmptySubs, data |-> NoEntries ],
      [ entries |-> ("stale.txt" :> "file" @@ TMPFILENAME :> "file"), sub |-> EmptySubs,
        data |-> ("stale.txt" :> << "foreign" >> @@ TMPFILENAME :> << "foreign" >>) ] }

\* The process has ended and the script is started again: a new process begins
\* at main() with its own command line; the filesystem is as the first left it.
Rerun ==
    /\ pc = "exit"
    /\ run = "first"
    /\ run' = "second"
    /\ prev' = [ args |-> args, success |-> success, modes |-> odMode ]
    /\ \E a \in RerunArgs : args' = a
    /\ pc' = "main"
    /\ started' = << >>
    /\ error' = NoError
    /\ exitCode' = Running
    /\ success' = FALSE
    /\ cmdFailedIn' = "none"
    /\ cpLog' = {}
    /\ sv_files' = NotScanned
    /\ copyTrace' = << >>
    /\ written' = {}
    /\ fs0' = FsNow
    /\ UNCHANGED <<euid, od, odEntries, odSub, odData, odMode, tgz, tarContent, home,
                   outdir_parent, od_path>>

InitRerun ==
    /\ pc = "main"
    /\ args \in RerunArgs
    /\ euid = 0
    /\ od \in {"absent", "dir"}
    /\ \E prior \in IF od = "dir" THEN RerunPriors
                    ELSE { [ entries |-> NoEntries, sub |-> EmptySubs,
                             data |-> NoEntries ] } :
          /\ odEntries = prior.entries
          /\ odSub = prior.sub
          /\ odData = prior.data
    /\ tgz \in {"absent", "file"}
    /\ started = << >>
    /\ error = NoError
    /\ exitCode = Running
    /\ success = FALSE
    /\ cmdFailedIn = "none"
    /\ cpLog = {}
    /\ home = MainHome
    /\ outdir_parent = ParentBasename(args.outdir)
    /\ sv_files = NotScanned
    /\ copyTrace = << >>
    /\ fs0 = FsNow
    /\ tarContent = IF tgz = "file" THEN { StaleTree } ELSE {}
    /\ written = {}
    /\ run = "first"
    /\ prev = NoPrev
    /\ od_path = NotInHome
    /\ odMode = [ n \in DOMAIN odEntries |-> "other" ]

NextRerun == Next \/ Rerun

SpecRerun == InitRerun /\ [][NextRerun]_vars

----------------------------------------------------------------------------
(* Properties *)

HasStarted(step) == \E i \in 1..Len(started) : started[i] = step

HOMEDIR == STANDARD_FILE_NAMES.dockerc_homedir
COPYDIR == STANDARD_FILE_NAMES.dockerc_copydir

\* create_output_dir has returned normally and nothing has touched the result yet.
CreateOutputDirReturned == pc = "write_execcmdline"

\* C1: whenever create_output_dir returns normally, whatever was at the path and
\* at <path>.tar.gz before and whatever the clear flag, the path is a directory
\* and nothing exists at <path>.tar.gz.
C1_DirExistsAndNoArchiveLeft ==
    CreateOutputDirReturned => od = "dir" /\ tgz = "absent"

\* C2: create_output_dir called with clear_flag on a path held by a regular file
\* or by a directory returns normally, and an empty directory is then at the path:
\* the file is gone, none of the directory's previous entries is left.
C2_ClearReplacesFileOrDir ==
    [][ (pc = "create_output_dir" /\ args.clear /\ od \in {"file", "dir"})
        => /\ pc' = "write_execcmdline"
           /\ error' = NoError
           /\ od' = "dir"
           /\ DOMAIN odEntries' = {}
           /\ \A d \in SubDirNames : odSub'[d] = {} ]_vars

\* C2 witness: the call has returned with clear set where a regular file was, and
\* an empty directory is there now.
C2_Witness ==
    /\ CreateOutputDirReturned
    /\ args.clear
    /\ fs0.od = "file"
    /\ od = "dir"
    /\ DOMAIN odEntries = {}

\* C3: if the stdout path does not exist when run() starts, saveCmdOutputs raises
\* the error that names it, no later step is started, the success message is not
\* printed, and when the process has ended no <outdir>.tar.gz archive exists, a
\* stale one from before the invocation included.
C3_MissingStdoutStopsAtStepOne ==
    (started # << >> /\ ~ path_exists(args.stdout))
    => /\ pc = "exit"
       /\ error.step = "saveCmdOutputs"
       /\ started = << "saveCmdOutputs" >>
       /\ ~ success
       /\ tgz # "file"

\* C3 witness: the run has ended in saveCmdOutputs on a missing stdout file, and
\* the stale archive that was there at the start is gone.
C3_Witness ==
    /\ pc = "exit"
    /\ error.step = "saveCmdOutputs"
    /\ ~ path_exists(args.stdout)
    /\ fs0.tgz = "file"
    /\ tgz = "absent"

\* C4 (as claimed): with --lite, once saveModelSpecificArtifacts has run, the
\* home-directory-artifacts sub-directory exists in the output directory and is
\* empty.
C4_LiteSubdirCreatedEmpty ==
    (args.lite /\ HasStarted("saveModelSpecificArtifacts"))
    => /\ HOMEDIR \in DOMAIN odEntries
       /\ odEntries[HOMEDIR] = "dir"
       /\ odSub[HOMEDIR] = {}

\* C4 (amended): with --lite, saveModelSpecificArtifacts changes nothing in the
\* output directory: it does not create the home-directory-artifacts
\* sub-directory, copies nothing into it, issues no cp and returns normally.
C4_LiteLeavesOutputDirAlone ==
    [][ (pc = "saveModelSpecificArtifacts" /\ args.lite)
        => /\ odEntries' = odEntries
           /\ odSub' = odSub
           /\ cpLog' = cpLog
           /\ sv_files' = sv_files
           /\ error' = NoError
           /\ pc' = "saveAdditionalCopyDirs" ]_vars

\* C4 witness: a --lite run is past step 5 and the sub-directory does not exist.
C4_Witness ==
    /\ args.lite
    /\ HasStarted("saveModelSpecificArtifacts")
    /\ HOMEDIR \notin DOMAIN odEntries

\* A directory named B lies below path p, at any depth.
HasDirNamedBelow(h, p, B) ==
    \E q \in DOMAIN h :
        /\ Len(q) > Len(p)
        /\ SubSeq(q, 1, Len(p)) = p
        /\ h[q] = "dir"
        /\ Basename(q) = B

\* C5: the list returned by getHomeDirContentToSave holds no top-level directory
\* that is named B (the basename of the output directory's parent) or has a
\* directory named B at any depth beneath it; it holds every other top-level
\* directory and every top-level regular file, and nothing else.
C5_HomeListExcludesContainersOfB ==
    sv_files # NotScanned =>
        /\ \A e \in sv_files : e \in DOMAIN home /\ Len(e) = 1
        /\ \A e \in DOMAIN home :
            Len(e) = 1 =>
                IF home[e] = "dir"
                THEN (e \in sv_files) <=>
                        ~ ( \/ Basename(e) = outdir_parent
                            \/ HasDirNamedBelow(home, e, outdir_parent) )
                ELSE e \in sv_files

\* C5 witness: a top-level directory has a directory named B two levels down and
\* is not in the returned list, while another top-level directory is.
C5_Witness ==
    /\ sv_files # NotScanned
    /\ \E e \in DOMAIN home, q \in DOMAIN home :
          /\ Len(e) = 1 /\ home[e] = "dir" /\ Basename(e) # outdir_parent
          /\ Len(q) = 3 /\ SubSeq(q, 1, 1) = e /\ home[q] = "dir"
          /\ Basename(q) = outdir_parent
          /\ Basename(SubSeq(q, 1, 2)) # outdir_parent
          /\ e \notin sv_files
    /\ \E e \in sv_files : home[e] = "dir"

\* C6: in saveAdditionalCopyDirs every entry of the list is dealt with, in order:
\* one that does not exist is skipped without raising, one that exists is copied
\* into docker_container_additional_dirs by the cp of saveFileNoSymlink (no -L) and
\* never by the dereferencing one; the step does not raise and run() goes on.
C6_CopyDirsSkipMissingCopyExisting ==
    HasStarted("saveAdditionalCopyDirs") =>
        /\ error.step # "saveAdditionalCopyDirs"
        /\ Len(copyTrace) = Len(args.copydirs)
        /\ \A i \in 1..Len(args.copydirs) :
            LET p == args.copydirs[i]
            IN  /\ copyTrace[i].path = p
                /\ IF p \in ExistingPaths
                   THEN /\ copyTrace[i].did = "copied"
                        /\ [src |-> p, dst |-> COPYDIR, deref |-> FALSE] \in cpLog
                        /\ [src |-> p, dst |-> COPYDIR, deref |-> TRUE] \notin cpLog
                        /\ p \in odSub[COPYDIR]
                        /\ COPYDIR \in DOMAIN odEntries
                   ELSE /\ copyTrace[i].did = "skipped"
                        /\ \A c \in cpLog : c.src # p
                        /\ p \notin odSub[COPYDIR]

\* C6 witness: the list had a missing entry followed by an existing one, the
\* existing one was copied, and the following step has started.
C6_Witness ==
    /\ HasStarted("saveDockerRunParameters")
    /\ Len(args.copydirs) = 2
    /\ args.copydirs[1] \notin ExistingPaths
    /\ args.copydirs[2] \in ExistingPaths
    /\ copyTrace[1].did = "skipped"
    /\ copyTrace[2].did = "copied"
    /\ args.copydirs[2] \in odSub[COPYDIR]

\* C7: run() starts the steps in the order of StepOrder; a step starts only when
\* every earlier one has returned without error; once a step has raised, no later
\* step starts and the run has ended with an error that names that step and
\* carries the original cause.
C7_StepsInOrderAbortOnFirstFailure ==
    /\ Len(started) <= Len(StepOrder)
    /\ started = SubSeq(StepOrder, 1, Len(started))
    /\ pc \in StepNames =>
          /\ error = NoError
          /\ Len(started) = StepIndex(pc) - 1
    /\ error.step \in StepNames =>
          /\ pc = "exit"
          /\ ~ success
          /\ started # << >>
          /\ started[Len(started)] = error.step
          /\ error.cause # "none"
    /\ success => started = StepOrder /\ error = NoError

\* C7 witness: nine steps returned, the tenth (generateTarball) raised, and the
\* eleventh never started.
C7_Witness ==
    /\ pc = "exit"
    /\ error.step = "generateTarball"
    /\ error.cause = "FileExistsError"
    /\ Len(started) = 10

\* C8 (as claimed): the exit status is 0 when the run succeeds and 1 for an
\* invocation with no argument, for one without -s/--stdout, and for one by a user
\* who is not root.
C8_ExitStatusOneOnUsageErrors ==
    pc = "exit" =>
        /\ success => exitCode = << 0 >>
        /\ NoArguments(args) => exitCode = << 1 >>
        /\ args.stdout = NoneVal => exitCode = << 1 >>
        /\ euid # 0 => exitCode = << 1 >>

\* C8 (amended): the exit status is 0 when the run succeeds, 1 for an invocation
\* with no argument and for one that gives -s but is not by root, and 2 (argparse's
\* own error status) for one that gives arguments but not -s/--stdout, whoever the
\* user is.
C8_ExitStatusArgparseTwo ==
    pc = "exit" =>
        /\ success => exitCode = << 0 >>
        /\ NoArguments(args) => exitCode = << 1 >>
        /\ (args.stdout = NoneVal /\ ~ NoArguments(args)) => exitCode = << 2 >>
        /\ (euid # 0 /\ args.stdout # NoneVal) =>
              exitCode = << 1 >> /\ started = << >> /\ od = fs0.od

\* C8 witness: an invocation with "-c" but without -s has ended with status 2.
C8_Witness ==
    /\ pc = "exit"
    /\ args.stdout = NoneVal
    /\ args.clear
    /\ exitCode = << 2 >>

\* C9: whenever a shell command run by a step exits non-zero, that step raises an
\* error that names it, the run ends there, and the success message is not printed.
C9_FailedCommandFailsItsStep ==
    cmdFailedIn # "none" =>
        /\ pc = "exit"
        /\ error.step = cmdFailedIn
        /\ started[Len(started)] = cmdFailedIn
        /\ ~ success

\* C10: a stdout, stderr or yaml-config path that is given and names no file makes
\* the step that captures it raise (saveCmdOutputs for stdout and stderr,
\* saveCmdlineAndOptions for the yaml config) and the run does not succeed; a
\* stderr or yaml config that is not given makes no step fail.
C10_MissingNamedInputFailsItsStep ==
    /\ (HasStarted("saveCmdOutputs")
        /\ (~ path_exists(args.stdout)
            \/ (args.stderr # NoneVal /\ ~ path_exists(args.stderr))))
       => pc = "exit" /\ error.step = "saveCmdOutputs" /\ ~ success
    /\ (HasStarted("saveCmdlineAndOptions")
        /\ args.yaml_config # NoneVal /\ ~ path_exists(args.yaml_config))
       => pc = "exit" /\ error.step = "saveCmdlineAndOptions" /\ ~ success
    /\ (args.stderr = NoneVal /\ path_exists(args.stdout))
       => error.step # "saveCmdOutputs"
    /\ args.yaml_config = NoneVal => error.step # "saveCmdlineAndOptions"

----------------------------------------------------------------------------
\* C13 as stated: when the effective user id is not 0 the script exits with
\* status 1 and has touched nothing: the output path and the archive beside it
\* are as they were when the script started, the execution-command-line record
\* is not written, create_output_dir is never reached and no step starts.
C13_NonRootExitsWithOne ==
    euid # 0 =>
        /\ pc \in {"main", "parse_args", "exit"}
        /\ FsNow = fs0
        /\ written = {}
        /\ started = << >>
        /\ pc = "exit" => exitCode = << 1 >>

\* C13, amended: when the effective user id is not 0 the script ends before
\* create_output_dir is reached and has touched nothing (output path, archive,
\* record, steps); its exit status is 1 when -s/--stdout is given or no argument
\* at all is given, and argparse's 2 when arguments are given without -s/--stdout.
C13_NonRootStopsBeforeOutputDir ==
    euid # 0 =>
        /\ pc \in {"main", "parse_args", "exit"}
        /\ FsNow = fs0
        /\ written = {}
        /\ started = << >>
        /\ pc = "exit" =>
              exitCode = IF args.stdout = NoneVal /\ ~ NoArguments(args)
                         THEN << ArgparseErrorStatus >>
                         ELSE << 1 >>

\* A non-root invocation with -s and -c on an output directory that holds entries,
\* beside an archive, has exited with status 1 and everything is still there.
C13_Witness ==
    /\ euid # 0
    /\ pc = "exit"
    /\ exitCode = << 1 >>
    /\ args.stdout # NoneVal
    /\ args.clear
    /\ fs0.od = "dir"
    /\ fs0.entries # NoEntries
    /\ fs0.tgz = "file"
    /\ FsNow = fs0

----------------------------------------------------------------------------
\* generateTarball, lines 433-434: the archive is named after the output
\* directory, in the directory above it.
ArchiveName == "gather_info_docker.tar.gz"

\* C12: on every run in which the collection steps have completed and
\* generateTarball has run, there is one archive beside the output directory,
\* none inside it, the archive holds the tree of the output directory as it is
\* (the execution-command-line record included), and nothing changes the tree
\* or the archive afterwards.
C12_CompletedStepsYieldOneArchive ==
    HasStarted("generateTarball") =>
        /\ tgz = "file"
        /\ tarContent = { TreeNow }
        /\ EXECCMDLINEFILE \in DOMAIN odEntries
        /\ ArchiveName \notin DOMAIN odEntries

----------------------------------------------------------------------------
\* path p is q or an ancestor of q
IsPrefix(p, q) == Len(p) <= Len(q) /\ SubSeq(q, 1, Len(p)) = p

\* C14: wherever the output directory lies below $HOME, the -o directory being
\* $HOME itself included, no entry of the list getHomeDirContentToSave returns is
\* the output directory or an ancestor of it.
C14_HomeListNeverHoldsOutdir ==
    (sv_files # NotScanned /\ od_path # NotInHome) =>
        \A entry \in sv_files : ~ IsPrefix(entry, od_path)

----------------------------------------------------------------------------
\* create_output_dir has returned normally in this invocation.
PastCreateOutputDir ==
    /\ pc \notin {"main", "parse_args", "create_output_dir"}
    /\ pc = "exit" => << EXECCMDLINEFILE >> \in written

\* Everything in the output directory was written by this invocation.
OnlyNewEntries ==
    /\ \A n \in DOMAIN odEntries : << n >> \in written
    /\ \A d \in SubDirNames : \A item \in odSub[d] : << d, item >> \in written

\* Entry n, there when this invocation started, is there with the same type and
\* the same content.
SameContent(n) ==
    /\ n \in DOMAIN odEntries
    /\ odEntries[n] = fs0.entries[n]
    /\ n \in DOMAIN fs0.data => n \in DOMAIN odData /\ odData[n] = fs0.data[n]

\* Entry n, there when this invocation started, has the mode bits it had.
SameMode(n) == n \in DOMAIN odMode /\ odMode[n] = prev.modes[n]

\* What a sub-directory held when this invocation started is still in it.
SubItemsKept == \A d \in SubDirNames : fs0.sub[d] \subseteq odSub[d]

\* C11 as stated: in a second invocation, once create_output_dir has returned:
\* with the clear flag only entries written by this invocation are in the output
\* directory; without it every entry that no step of this invocation writes is
\* unchanged (present, same type, same content, same mode bits).
C11_RerunLeavesUnwrittenUnchanged ==
    (run = "second" /\ PastCreateOutputDir) =>
        IF args.clear
        THEN OnlyNewEntries
        ELSE /\ \A n \in DOMAIN fs0.entries :
                    << n >> \notin written => SameContent(n) /\ SameMode(n)
             /\ SubItemsKept

\* C11, amended: with the clear flag only entries written by this invocation are
\* in the output directory; without it every entry that no step of this
\* invocation writes keeps its type and content, except a file named tmpfile,
\* which saveEnvVars removes, and keeps its mode bits until generateTarball's
\* chmod -R sets them to 755.
C11_RerunFrameButTmpfileAndModes ==
    (run = "second" /\ PastCreateOutputDir) =>
        IF args.clear
        THEN OnlyNewEntries
        ELSE /\ \A n \in DOMAIN fs0.entries \ {TMPFILENAME} :
                    << n >> \notin written =>
                        /\ SameContent(n)
                        /\ IF HasStarted("generateTarball")
                           THEN odMode[n] = "0755"
                           ELSE SameMode(n)
             /\ TMPFILENAME \in DOMAIN fs0.entries =>
                    IF HasStarted("saveEnvVars")
                    THEN TMPFILENAME \notin DOMAIN odEntries
                    ELSE SameContent(TMPFILENAME) /\ SameMode(TMPFILENAME)
             /\ SubItemsKept

\* A second invocation without the clear flag has succeeded on a directory the
\* first had left with two foreign files: the one no step writes is there with
\* its content and with mode 755, tmpfile is gone.
C11_Witness ==
    /\ run = "second"
    /\ pc = "exit"
    /\ success
    /\ ~ args.clear
    /\ EXECCMDLINEFILE \in DOMAIN prev.modes
    /\ "stale.txt" \in DOMAIN fs0.entries
    /\ << "stale.txt" >> \notin written
    /\ SameContent("stale.txt")
    /\ prev.modes["stale.txt"] = "other"
    /\ odMode["stale.txt"] = "0755"
    /\ TMPFILENAME \in DOMAIN fs0.entries
    /\ TMPFILENAME \notin DOMAIN odEntries

\* The regular files with canonical names.
CanonicalFileNames ==
    { STANDARD_FILE_NAMES[k] : k \in DOMAIN STANDARD_FILE_NAMES } \ SubDirNames

\* C15: after two successive successful runs with the same inputs, the second
\* without the clear flag, every canonical file has the content it had after the
\* first run.
C15_RerunWithoutClearIsIdempotent ==
    ( /\ run = "second"
      /\ pc = "exit"
      /\ success
      /\ prev.success
      /\ ~ args.clear
      /\ [args EXCEPT !.clear = prev.args.clear] = prev.args ) =>
        \A n \in CanonicalFileNames \cap DOMAIN fs0.data :
            n \in DOMAIN odData /\ odData[n] = fs0.data[n]

====
